---- MODULE Spec2Model ----
(***************************************************************************)
(* Model of the translation-complexity scorer: Config (config.py), the     *)
(* three metric providers (metrics/readability.py, metrics/linguistic.py,  *)
(* metrics/translation.py) and TranslationComplexityScorer (scorer.py).    *)
(*                                                                         *)
(* Numbers are exact rationals [n, d] in lowest terms with d > 0; the      *)
(* rounding of IEEE doubles, NaN and infinities are not modelled.          *)
(* A call's outcome is a record [exc, at, val]: exc = "none" and val the   *)
(* returned value, or exc the exception raised and at the place raising it.*)
(***************************************************************************)
EXTENDS Integers, Sequences, FiniteSets, TLC

VARIABLES
    config,   \* self.config of the scorer: the Config it was constructed with
    op,       \* name of the last public operation called ("init" before any)
    arg,      \* argument of that call
    ret,      \* its outcome
    memo      \* observer: one earlier score_text call, its text and outcome, and
              \* whether other calls were made since

vars == <<config, op, arg, ret, memo>>

(***************************************************************************)
(* Arithmetic of Python floats, as exact rationals.                        *)
(***************************************************************************)
Abs(x) == IF x < 0 THEN -x ELSE x

RECURSIVE GCD(_, _)
GCD(a, b) == IF b = 0 THEN a ELSE GCD(b, a % b)

\* The rational n/d (d # 0), in lowest terms with a positive denominator.
Q(n, d) ==
    LET s == IF d < 0 THEN -1 ELSE 1
        g == GCD(Abs(n), Abs(d))
    IN  [n |-> (s * n) \div g, d |-> (s * d) \div g]

Zero == Q(0, 1)
One == Q(1, 1)

Add(a, b) == Q(a.n * b.d + b.n * a.d, a.d * b.d)
Sub(a, b) == Q(a.n * b.d - b.n * a.d, a.d * b.d)
Mul(a, b) == Q(a.n * b.n, a.d * b.d)
\* a / b for b # 0 (the callers raise ZeroDivisionError themselves when b = 0)
Div(a, b) == Q(a.n * b.d, a.d * b.n)
Lt(a, b) == a.n * b.d < b.n * a.d
Le(a, b) == a.n * b.d <= b.n * a.d

\* Python's min(a, b) and max(a, b): the first argument unless the second beats it
Min2(a, b) == IF Lt(b, a) THEN b ELSE a
Max2(a, b) == IF Lt(a, b) THEN b ELSE a

(***************************************************************************)
(* Outcomes of calls.                                                      *)
(***************************************************************************)
Ret(v) == [exc |-> "none", at |-> "none", val |-> v]
Raise(e, at) == [exc |-> e, at |-> at, val |-> "none"]
Returned(o) == o.exc = "none"

(***************************************************************************)
(* config.py                                                               *)
(***************************************************************************)
\* The dataclass-generated constructor: it stores its arguments, unvalidated.
Config(rw, lw, tw, low, medium, high) ==
    [READABILITY_WEIGHT |-> rw, LINGUISTIC_WEIGHT |-> lw, TRANSLATION_WEIGHT |-> tw,
     LOW_COMPLEXITY_THRESHOLD |-> low, MEDIUM_COMPLEXITY_THRESHOLD |-> medium,
     HIGH_COMPLEXITY_THRESHOLD |-> high]

DefaultConfig == Config(Q(3, 10), Q(4, 10), Q(3, 10), Q(25, 100), Q(45, 100), Q(65, 100))

get_metric_weights(cfg) ==
    [readability |-> cfg.READABILITY_WEIGHT,
     linguistic |-> cfg.LINGUISTIC_WEIGHT,
     translation |-> cfg.TRANSLATION_WEIGHT]

\* (variant: a score equal to a threshold stays in the lower band)
get_complexity_level_le(cfg, score) ==
    IF Le(score, cfg.LOW_COMPLEXITY_THRESHOLD) THEN "low"
    ELSE IF Le(score, cfg.MEDIUM_COMPLEXITY_THRESHOLD) THEN "medium"
    ELSE IF Le(score, cfg.HIGH_COMPLEXITY_THRESHOLD) THEN "high"
    ELSE "very_high"

get_complexity_level(cfg, score) ==
    IF Lt(score, cfg.LOW_COMPLEXITY_THRESHOLD) THEN "low"
    ELSE IF Lt(score, cfg.MEDIUM_COMPLEXITY_THRESHOLD) THEN "medium"
    ELSE IF Lt(score, cfg.HIGH_COMPLEXITY_THRESHOLD) THEN "high"
    ELSE "very_high"

(***************************************************************************)
(* Texts.  A text is modelled by what the external libraries make of it:   *)
(*   doc      the spaCy parse: a sequence of sentences, each a non-empty   *)
(*            sequence of tokens [text, head], head the index of the       *)
(*            token's syntactic head in its sentence (the root is its own  *)
(*            head).  The tokens of the text are separated by blanks, so   *)
(*            str.split() yields the token texts in order.                 *)
(*   textstat the outcome of each textstat formula on the text: the raw    *)
(*            value, or an exception.                                      *)
(*   norm     the norm of the text's mean-pooled embedding.                *)
(***************************************************************************)
Tok(t, h) == [text |-> t, head |-> h]

RECURSIVE Flatten(_)
Flatten(ss) == IF ss = <<>> THEN <<>> ELSE Head(ss) \o Flatten(Tail(ss))

\* the tokens of a Doc, in order (iterating the Doc)
DocTokens(doc) == Flatten(doc)

\* str.lower()
LowerCase == ("Kick" :> "kick") @@ ("The" :> "the")
Lower(s) == IF s \in DOMAIN LowerCase THEN LowerCase[s] ELSE s

\* token.is_punct
Punctuation == {".", ",", "!", "?"}
is_punct(token) == token.text \in Punctuation

\* text.lower().split()
SplitWords(text) ==
    LET toks == DocTokens(text.doc)
    IN  [i \in 1..Len(toks) |-> Lower(toks[i].text)]

RECURSIVE SumSeq(_)
SumSeq(s) == IF s = <<>> THEN 0 ELSE Head(s) + SumSeq(Tail(s))

SetMin(S) == CHOOSE x \in S : \A y \in S : x <= y
SetMax(S) == CHOOSE x \in S : \A y \in S : y <= x

(***************************************************************************)
(* metrics/readability.py                                                  *)
(***************************************************************************)
ReadabilityNames ==
    <<"flesch_kincaid", "coleman_liau", "gunning_fog", "smog", "flesch_reading_ease">>

\* textstat.<formula>(text): the library's outcome for this text
textstat(text, name) == text.textstat[name]

\* position of the first formula of the try block that raises (6: none does)
FirstFailure(text) ==
    LET bad == {i \in 1..5 : ~Returned(textstat(text, ReadabilityNames[i]))}
    IN  IF bad = {} THEN 6 ELSE SetMin(bad)

\* the `scores` dict when the try block is left: the clamped raw value of every
\* formula evaluated before the first failure
ClampedScores(text) ==
    [k \in {ReadabilityNames[i] : i \in 1..(FirstFailure(text) - 1)} |->
        IF k = "flesch_reading_ease"
        THEN Max2(Zero, Min2(Q(100, 1), textstat(text, k).val))
        ELSE Max2(Zero, Min2(Q(20, 1), textstat(text, k).val))]

NormalizeReadability(scores) ==
    [k \in DOMAIN scores |->
        IF k = "flesch_reading_ease"
        THEN Sub(One, Div(scores[k], Q(120, 1)))
        ELSE Div(scores[k], Q(25, 1))]

ReadabilityDefault ==
    [k \in {ReadabilityNames[i] : i \in 1..5} |-> Zero]

\* ReadabilityMetrics.score: never raises
ReadabilityScore(text) ==
    IF FirstFailure(text) <= 5
    THEN ReadabilityDefault
    ELSE NormalizeReadability(ClampedScores(text))

(***************************************************************************)
(* metrics/linguistic.py                                                   *)
(***************************************************************************)
\* doc.sents is a generator object: `not doc.sents` is False whatever it yields
NotSents(doc) == FALSE

_calculate_avg_sentence_length(doc) ==
    IF NotSents(doc) THEN Ret(Zero)
    ELSE IF Len(doc) = 0
         THEN Raise("ZeroDivisionError", "_calculate_avg_sentence_length")
    ELSE Ret(Q(SumSeq([i \in 1..Len(doc) |-> Len(doc[i])]), Len(doc)))

\* [token.text.lower() for token in doc if not token.is_punct]
NonPunctWords(doc) ==
    SelectSeq([i \in 1..Len(DocTokens(doc)) |->
                  [text |-> Lower(DocTokens(doc)[i].text), head |-> 0]],
              LAMBDA t : ~is_punct(t))

_calculate_lexical_diversity(doc) ==
    LET tokens == NonPunctWords(doc)
    IN  IF tokens = <<>> THEN Zero
        ELSE Q(Cardinality({tokens[i].text : i \in 1..Len(tokens)}), Len(tokens))

\* the number of head links from token i of the sentence up to its root
RECURSIVE TokenDepth(_, _)
TokenDepth(sent, i) ==
    IF sent[i].head = i THEN 0 ELSE 1 + TokenDepth(sent, sent[i].head)

MaxDepth(sent) == SetMax({0} \cup {TokenDepth(sent, i) : i \in 1..Len(sent)})

_calculate_syntactic_complexity(doc) ==
    IF NotSents(doc) THEN Ret(Zero)
    ELSE IF Len(doc) = 0
         THEN Raise("ZeroDivisionError", "_calculate_syntactic_complexity")
    ELSE Ret(Q(SumSeq([i \in 1..Len(doc) |-> MaxDepth(doc[i])]), Len(doc)))

common_words ==
    {"the", "be", "to", "of", "and", "a", "in", "that", "have", "i",
     "it", "for", "not", "on", "with", "he", "as", "you", "do", "at",
     "this", "but", "his", "by", "from", "they", "we", "say", "her", "she",
     "or", "an", "will", "my", "one", "all", "would", "there", "their",
     "what", "so", "up", "out", "if", "about", "who", "get", "which", "go",
     "me", "when", "make", "can", "like", "time", "no", "just", "him", "know",
     "take", "people", "into", "year", "your", "good", "some", "could", "them",
     "see", "other", "than", "then", "now", "look", "only", "come", "its",
     "over", "think", "also", "back", "after", "use", "two", "how", "our",
     "work", "first", "well", "way", "even", "new", "want", "because", "any",
     "these", "give", "day", "most", "us"}

_calculate_vocabulary_rarity(doc) ==
    LET words == NonPunctWords(doc)
        rare_words == SelectSeq(words, LAMBDA t : t.text \notin common_words)
    IN  IF words = <<>> THEN Zero ELSE Q(Len(rare_words), Len(words))

\* LinguisticMetrics.score: the raw scores are computed in the order of the
\* dict display, and the first exception leaves the method
LinguisticScore(text) ==
    LET doc == text.doc
        asl == _calculate_avg_sentence_length(doc)
        syn == _calculate_syntactic_complexity(doc)
    IN  IF ~Returned(asl) THEN asl
        ELSE IF ~Returned(syn) THEN syn
        ELSE Ret(("avg_sentence_length" :> Min2(Div(asl.val, Q(30, 1)), One))
              @@ ("lexical_diversity" :> Mul(_calculate_lexical_diversity(doc), Q(6, 10)))
              @@ ("syntactic_complexity" :> Min2(Div(syn.val, Q(10, 1)), One))
              @@ ("vocabulary_rarity" :> Mul(_calculate_vocabulary_rarity(doc), Q(5, 10))))

(***************************************************************************)
(* metrics/translation.py                                                  *)
(***************************************************************************)
\* torch.norm(embeddings, dim=1).mean().item() for this text
EmbeddingNorm(text) == text.norm

\* (variant: the scaled norm returned without the cap at 1.0)
_calculate_semantic_complexity_uncapped(text) == Div(EmbeddingNorm(text), Q(10, 1))

_calculate_semantic_complexity(text) == Min2(Div(EmbeddingNorm(text), Q(10, 1)), One)

\* the idioms, as the word sequences that " ".join(...) must produce
common_idioms ==
    {<<"kick", "the", "bucket">>, <<"raining", "cats", "and", "dogs">>,
     <<"piece", "of", "cake">>,
     <<"let", "the", "cat", "out", "of", "the", "bag">>,
     <<"hit", "the", "nail", "on", "the", "head">>}

_calculate_idiomatic_density(text) ==
    LET words == SplitWords(text)
        idiom_count ==
            Cardinality({i \in 1..(Len(words) - 2) : SubSeq(words, i, i + 2) \in common_idioms})
    IN  IF words = <<>> THEN Zero
        ELSE Min2(Div(Q(idiom_count, 1), Div(Q(Len(words), 1), Q(3, 1))), One)

common_terms ==
    {"the", "be", "to", "of", "and", "a", "in", "that", "have", "i",
     "it", "for", "not", "on", "with", "he", "as", "you", "do", "at",
     "this", "but", "his", "by", "from", "they", "we", "say", "her", "she"}

_calculate_domain_specificity(text) ==
    LET words == SplitWords(text)
        domain_terms == SelectSeq(words, LAMBDA w : w \notin common_terms)
    IN  IF words = <<>> THEN Zero ELSE Q(Len(domain_terms), Len(words))

\* (variant: the embedding metric stored under a linguistic metric's name)
TranslationScore_collide(text) ==
    ("syntactic_complexity" :> _calculate_semantic_complexity(text))
    @@ ("idiomatic_density" :> _calculate_idiomatic_density(text))
    @@ ("domain_specificity" :> _calculate_domain_specificity(text))

\* TranslationMetrics.score
TranslationScore(text) ==
    ("semantic_complexity" :> _calculate_semantic_complexity(text))
    @@ ("idiomatic_density" :> _calculate_idiomatic_density(text))
    @@ ("domain_specificity" :> _calculate_domain_specificity(text))

(***************************************************************************)
(* scorer.py                                                               *)
(***************************************************************************)
\* list(scores.values())
RECURSIVE Values(_)
Values(d) ==
    IF DOMAIN d = {} THEN <<>>
    ELSE LET k == CHOOSE x \in DOMAIN d : TRUE
         IN  <<d[k]>> \o Values([j \in DOMAIN d \ {k} |-> d[j]])

RECURSIVE SumQ(_)
SumQ(s) == IF s = <<>> THEN Zero ELSE Add(Head(s), SumQ(Tail(s)))

\* np.mean of a non-empty list
Mean(values) == Div(SumQ(values), Q(Len(values), 1))

\* (variant: the plain mean of the scores, the weights left out)
Average_unweighted(scores, weights) ==
    LET scl == SumQ(weights)
    IN  IF scl = Zero THEN Raise("ZeroDivisionError", "np.average")
        ELSE Ret(Div(SumQ(scores), Q(Len(scores), 1)))

\* np.average(scores, weights=weights): raises when the weights sum to zero
Average(scores, weights) ==
    LET scl == SumQ(weights)
    IN  IF scl = Zero THEN Raise("ZeroDivisionError", "np.average")
        ELSE Ret(Div(SumQ([i \in 1..Len(scores) |-> Mul(scores[i], weights[i])]), scl))

\* np.clip(x, lo, hi)
Clip(x, lo, hi) == Min2(Max2(x, lo), hi)

\* (variant: the weighted average returned as it is, without np.clip)
_calculate_overall_score_unclipped(readability_scores, linguistic_scores, translation_scores) ==
    LET weights == get_metric_weights(config)
    IN  Average(<<Mean(Values(readability_scores)), Mean(Values(linguistic_scores)),
                  Mean(Values(translation_scores))>>,
                <<weights.readability, weights.linguistic, weights.translation>>)

_calculate_overall_score(readability_scores, linguistic_scores, translation_scores) ==
    LET weights == get_metric_weights(config)
        readability_avg == Mean(Values(readability_scores))
        linguistic_avg == Mean(Values(linguistic_scores))
        translation_avg == Mean(Values(translation_scores))
        category_scores == <<readability_avg, linguistic_avg, translation_avg>>
        category_weights ==
            <<weights.readability, weights.linguistic, weights.translation>>
        avg == Average(category_scores, category_weights)
    IN  IF ~Returned(avg) THEN avg ELSE Ret(Clip(avg.val, Zero, One))

\* dict.update: the entries of `other` are added to d, replacing equal keys
Update(d, other) == other @@ d

score_text(text) ==
    LET readability_scores == ReadabilityScore(text)
        linguistic == LinguisticScore(text)
        translation_scores == TranslationScore(text)
    IN  IF ~Returned(linguistic) THEN linguistic
        ELSE LET linguistic_scores == linguistic.val
                 scores == Update(Update(Update(<<>>, readability_scores),
                                         linguistic_scores), translation_scores)
                 overall == _calculate_overall_score(readability_scores,
                                                     linguistic_scores,
                                                     translation_scores)
             IN  IF ~Returned(overall) THEN overall
                 ELSE Ret(Update(scores, "overall_complexity" :> overall.val))

\* (variant: the results collected last text first)
RECURSIVE batch_score_reversed(_)
batch_score_reversed(texts) ==
    IF texts = <<>> THEN Ret(<<>>)
    ELSE LET first == score_text(Head(texts))
             rest == batch_score_reversed(Tail(texts))
         IN  IF ~Returned(first) THEN first
             ELSE IF ~Returned(rest) THEN rest
             ELSE Ret(rest.val \o <<first.val>>)

\* [self.score_text(text) for text in texts]: the first exception leaves the
\* comprehension, and the results collected so far are dropped
RECURSIVE batch_score(_)
batch_score(texts) ==
    IF texts = <<>> THEN Ret(<<>>)
    ELSE LET first == score_text(Head(texts))
             rest == batch_score(Tail(texts))
         IN  IF ~Returned(first) THEN first
             ELSE IF ~Returned(rest) THEN rest
             ELSE Ret(<<first.val>> \o rest.val)

(***************************************************************************)
(* Bounds and inputs.                                                      *)
(***************************************************************************)
MaxSents == 2       \* sentences of a text
MaxBatch == 3       \* texts of a batch
LongLen == 31       \* tokens of the long sentence: more than the 30 that cap
                    \* avg_sentence_length, in a chain deeper than the 10 that
                    \* cap syntactic_complexity

RECURSIVE SeqsUpTo(_, _)
SeqsUpTo(S, n) ==
    IF n = 0 THEN {<<>>}
    ELSE LET shorter == SeqsUpTo(S, n - 1)
         IN  shorter \cup {Append(q, x) : q \in {r \in shorter : Len(r) = n - 1}, x \in S}

\* "Kick the bucket ." / "The cat" / "." / "we say quantum mechanics"
SentIdiom == <<Tok("Kick", 1), Tok("the", 3), Tok("bucket", 1), Tok(".", 1)>>
SentCat == <<Tok("The", 2), Tok("cat", 2)>>
SentDot == <<Tok(".", 1)>>
SentWe == <<Tok("we", 2), Tok("say", 2), Tok("quantum", 4), Tok("mechanics", 2)>>
Sentences == {SentIdiom, SentCat, SentDot, SentWe}

\* a sentence of LongLen words, each the syntactic child of the one before
SentLong == [i \in 1..LongLen |-> Tok("quantum", IF i = 1 THEN 1 ELSE i - 1)]

Docs == SeqsUpTo(Sentences, MaxSents) \cup {<<SentLong>>}

\* what textstat returns for a text: raw values inside and outside the ranges
\* the provider clamps to, or an exception from one of the formulas
TextstatPlain ==
    ("flesch_kincaid" :> Ret(Q(5, 1))) @@ ("coleman_liau" :> Ret(Q(63, 10)))
    @@ ("gunning_fog" :> Ret(Q(8, 1))) @@ ("smog" :> Ret(Q(0, 1)))
    @@ ("flesch_reading_ease" :> Ret(Q(80, 1)))
TextstatExtreme ==
    ("flesch_kincaid" :> Ret(Q(-3, 1))) @@ ("coleman_liau" :> Ret(Q(26, 1)))
    @@ ("gunning_fog" :> Ret(Q(20, 1))) @@ ("smog" :> Ret(Q(30, 1)))
    @@ ("flesch_reading_ease" :> Ret(Q(130, 1)))
TextstatFailing(i) ==
    [k \in DOMAIN TextstatPlain |->
        IF k = ReadabilityNames[i] THEN Raise("Exception", "textstat") ELSE TextstatPlain[k]]
TextstatChoices ==
    {TextstatPlain, TextstatExtreme} \cup {TextstatFailing(i) : i \in 1..5}

NormChoices == {Q(37, 10), Q(12, 1)}

Texts == [doc : Docs, textstat : TextstatChoices, norm : NormChoices]

\* the texts batches are made of, and that the observer may remember: the
\* empty string, an idiom, and a text on which the SMOG formula fails
EmptyText == [doc |-> <<>>, textstat |-> TextstatPlain, norm |-> Q(37, 10)]
IdiomText == [doc |-> <<SentIdiom>>, textstat |-> TextstatPlain, norm |-> Q(37, 10)]
CatText == [doc |-> <<SentCat>>, textstat |-> TextstatFailing(4), norm |-> Q(12, 1)]
BatchTexts == {EmptyText, IdiomText, CatText}
Batches == SeqsUpTo(BatchTexts, MaxBatch)

\* the weights a Config is constructed with: each category's default or 0
Configs ==
    {Config(rw, lw, tw, Q(25, 100), Q(45, 100), Q(65, 100)) :
        rw \in {Zero, Q(3, 10)}, lw \in {Zero, Q(4, 10)}, tw \in {Zero, Q(3, 10)}}

NoMemo == [set |-> FALSE, text |-> <<>>, out |-> Ret(<<>>), between |-> FALSE]

(***************************************************************************)
(* The scorer: a TranslationComplexityScorer constructed with any Config,  *)
(* then called any number of times by a caller that makes one call at a    *)
(* time and drops its result before the next.                              *)
(***************************************************************************)
Init ==
    /\ config \in Configs
    /\ op = "idle"
    /\ arg = <<>>
    /\ ret = Ret(<<>>)
    /\ memo = NoMemo

\* (variant: a call that leaves the translation weight of self.config at 0)
ScoreText_consuming ==
    /\ op = "idle"
    /\ \E text \in Texts :
        /\ op' = "score_text"
        /\ arg' = text
        /\ ret' = score_text(text)
        /\ IF memo.set
           THEN memo' = [memo EXCEPT !.between = @ \/ text # memo.text]
           ELSE IF text \in BatchTexts
           THEN memo' \in {memo, [set |-> TRUE, text |-> text, out |-> ret',
                                  between |-> FALSE]}
           ELSE memo' = memo
        /\ config' = [config EXCEPT !.TRANSLATION_WEIGHT = Zero]

\* scorer.score_text(text)
ScoreText ==
    /\ op = "idle"
    /\ \E text \in Texts :
        /\ op' = "score_text"
        /\ arg' = text
        /\ ret' = score_text(text)
        /\ IF memo.set
           THEN memo' = [memo EXCEPT !.between = @ \/ text # memo.text]
           ELSE IF text \in BatchTexts
           THEN memo' \in {memo, [set |-> TRUE, text |-> text, out |-> ret',
                                  between |-> FALSE]}
           ELSE memo' = memo
        /\ UNCHANGED config

\* scorer.batch_score(texts)
BatchScore ==
    /\ op = "idle"
    /\ \E texts \in Batches :
        /\ op' = "batch_score"
        /\ arg' = texts
        /\ ret' = batch_score(texts)
        /\ memo' = [memo EXCEPT !.between = @ \/ memo.set]
        /\ UNCHANGED config

\* scorer.config.get_complexity_level(scores["overall_complexity"])
ClassifyResult ==
    /\ op = "score_text"
    /\ Returned(ret)
    /\ op' = "get_complexity_level"
    /\ arg' = ret.val["overall_complexity"]
    /\ ret' = Ret(get_complexity_level(config, ret.val["overall_complexity"]))
    /\ UNCHANGED <<config, memo>>

\* the caller is done with the last call's outcome
Resume ==
    /\ op # "idle"
    /\ op' = "idle"
    /\ arg' = <<>>
    /\ ret' = Ret(<<>>)
    /\ UNCHANGED <<config, memo>>

Next == ScoreText \/ BatchScore \/ ClassifyResult \/ Resume

Spec == Init /\ [][Next]_vars

(***************************************************************************)
(* The classifier on its own: a Config constructed with any thresholds     *)
(* (their order is not validated), asked for the level of any score.       *)
(***************************************************************************)
ScoreMargin == 1    \* scores are taken this many thousandths around each point

ThresholdChoices == {Q(10, 100), Q(25, 100), Q(45, 100), Q(65, 100)}
ThresholdConfigs ==
    {Config(Q(3, 10), Q(4, 10), Q(3, 10), low, medium, high) :
        low \in ThresholdChoices, medium \in ThresholdChoices, high \in ThresholdChoices}

ScorePoints == {-500, 0, 100, 250, 450, 650, 1000, 1500}
Scores == {Q(p + e, 1000) : p \in ScorePoints, e \in (-ScoreMargin)..ScoreMargin}

InitConfig ==
    /\ config \in ThresholdConfigs
    /\ op = "idle"
    /\ arg = <<>>
    /\ ret = Ret(<<>>)
    /\ memo = NoMemo

\* config.get_complexity_level(score)
GetComplexityLevel ==
    /\ op = "idle"
    /\ \E score \in Scores :
        /\ op' = "get_complexity_level"
        /\ arg' = score
        /\ ret' = Ret(get_complexity_level(config, score))
        /\ UNCHANGED <<config, memo>>

\* config.get_metric_weights()
GetMetricWeights ==
    /\ op = "idle"
    /\ op' = "get_metric_weights"
    /\ arg' = <<>>
    /\ ret' = Ret(get_metric_weights(config))
    /\ UNCHANGED <<config, memo>>

NextConfig == GetComplexityLevel \/ GetMetricWeights \/ Resume

SpecConfig == InitConfig /\ [][NextConfig]_vars

(***************************************************************************)
(* The overall aggregator on its own: _calculate_overall_score applied to  *)
(* any three non-empty metric maps, with values inside and outside [0,1],  *)
(* under any weights.                                                      *)
(***************************************************************************)
MaxKeys == 3        \* metrics of a category's map

LinguisticNames ==
    <<"avg_sentence_length", "lexical_diversity", "syntactic_complexity", "vocabulary_rarity">>
TranslationNames == <<"semantic_complexity", "idiomatic_density", "domain_specificity">>

MetricValues == {Q(-1, 1), Q(2, 10), Q(4, 10), Q(6, 10), Q(2, 1)}
OuterValues == {Q(-1, 1), Q(4, 10), Q(2, 1)}

\* the maps on the first 1..k of the names
MetricMaps(names, k, values) ==
    UNION {[{names[i] : i \in 1..j} -> values] : j \in 1..SetMin({k, Len(names)})}

\* one map of up to MaxKeys metrics, the two others of a single metric
OverallInputs ==
    [readability : MetricMaps(ReadabilityNames, MaxKeys, MetricValues),
     linguistic : MetricMaps(LinguisticNames, 1, OuterValues),
     translation : MetricMaps(TranslationNames, 1, OuterValues)]
    \cup
    [readability : MetricMaps(ReadabilityNames, 1, OuterValues),
     linguistic : MetricMaps(LinguisticNames, MaxKeys, MetricValues),
     translation : MetricMaps(TranslationNames, 1, OuterValues)]
    \cup
    [readability : MetricMaps(ReadabilityNames, 1, OuterValues),
     linguistic : MetricMaps(LinguisticNames, 1, OuterValues),
     translation : MetricMaps(TranslationNames, MaxKeys, MetricValues)]

WeightChoices == {Zero, Q(3, 10), Q(2, 1)}
WeightConfigs ==
    {Config(rw, lw, tw, Q(25, 100), Q(45, 100), Q(65, 100)) :
        rw \in WeightChoices, lw \in WeightChoices, tw \in WeightChoices}

InitOverall ==
    /\ config \in WeightConfigs
    /\ op = "idle"
    /\ arg = <<>>
    /\ ret = Ret(<<>>)
    /\ memo = NoMemo

\* scorer._calculate_overall_score(readability_scores, linguistic_scores, translation_scores)
CalculateOverallScore ==
    /\ op = "idle"
    /\ \E in \in OverallInputs :
        /\ op' = "_calculate_overall_score"
        /\ arg' = in
        /\ ret' = _calculate_overall_score(in.readability, in.linguistic, in.translation)
        /\ UNCHANGED <<config, memo>>

NextOverall == CalculateOverallScore \/ Resume

SpecOverall == InitOverall /\ [][NextOverall]_vars

(***************************************************************************)
(* The linguistic provider on its own: LinguisticMetrics.score called with *)
(* any text, the empty one included.                                       *)
(***************************************************************************)
InitLinguistic ==
    /\ config \in Configs
    /\ op = "idle"
    /\ arg = <<>>
    /\ ret = Ret(<<>>)
    /\ memo = NoMemo

\* linguistic_metrics.score(text)
LinguisticMetricsScore ==
    /\ op = "idle"
    /\ \E text \in Texts :
        /\ op' = "LinguisticMetrics.score"
        /\ arg' = text
        /\ ret' = LinguisticScore(text)
        /\ UNCHANGED <<config, memo>>

NextLinguistic == LinguisticMetricsScore \/ Resume

SpecLinguistic == InitLinguistic /\ [][NextLinguistic]_vars

(***************************************************************************)
(* Properties.                                                             *)
(***************************************************************************)
InUnitInterval(x) == Le(Zero, x) /\ Le(x, One)

PositiveWeights(cfg) ==
    /\ Lt(Zero, cfg.READABILITY_WEIGHT)
    /\ Lt(Zero, cfg.LINGUISTIC_WEIGHT)
    /\ Lt(Zero, cfg.TRANSLATION_WEIGHT)

\* Integer restatement of the weighted average of the category means, in
\* tenths: the sum of a map's values, and numerator and denominator of
\* (w_r*mean(R) + w_l*mean(L) + w_t*mean(T)) / (w_r + w_l + w_t).
Tenths(x) == (x.n * 10) \div x.d
RECURSIVE SumTenths(_, _)
SumTenths(d, keys) ==
    IF keys = {} THEN 0
    ELSE LET k == CHOOSE x \in keys : TRUE
         IN  Tenths(d[k]) + SumTenths(d, keys \ {k})
Count(d) == Cardinality(DOMAIN d)
WeightedNum(cfg, in) ==
    Tenths(cfg.READABILITY_WEIGHT) * SumTenths(in.readability, DOMAIN in.readability)
        * Count(in.linguistic) * Count(in.translation)
    + Tenths(cfg.LINGUISTIC_WEIGHT) * SumTenths(in.linguistic, DOMAIN in.linguistic)
        * Count(in.readability) * Count(in.translation)
    + Tenths(cfg.TRANSLATION_WEIGHT) * SumTenths(in.translation, DOMAIN in.translation)
        * Count(in.readability) * Count(in.linguistic)
WeightedDen(cfg, in) ==
    10 * (Tenths(cfg.READABILITY_WEIGHT) + Tenths(cfg.LINGUISTIC_WEIGHT)
          + Tenths(cfg.TRANSLATION_WEIGHT))
       * Count(in.readability) * Count(in.linguistic) * Count(in.translation)

\* C1: with three positive weights, _calculate_overall_score returns (it does
\* not raise) a value in [0,1] for every triple of metric maps, also when the
\* weighted average itself is above 1 or below 0.
C1_OverallInUnitInterval ==
    (op = "_calculate_overall_score" /\ PositiveWeights(config)) =>
        Returned(ret) /\ InUnitInterval(ret.val)

\* C1 witness: positive weights, a weighted average above 1, and 1 returned
C1_Witness ==
    /\ op = "_calculate_overall_score"
    /\ PositiveWeights(config)
    /\ WeightedNum(config, arg) > WeightedDen(config, arg)
    /\ ret = Ret(One)

\* C2: with ascending thresholds the level is "low" exactly below low, "medium"
\* exactly in [low, medium), "high" exactly in [medium, high) and "very_high"
\* exactly from high on, for scores inside and outside [0,1]; with the default
\* thresholds 0.0 is low, 0.25 and 0.449 are medium, 0.45 is high, 1.0 very_high.
Ascending(cfg) ==
    /\ Lt(cfg.LOW_COMPLEXITY_THRESHOLD, cfg.MEDIUM_COMPLEXITY_THRESHOLD)
    /\ Lt(cfg.MEDIUM_COMPLEXITY_THRESHOLD, cfg.HIGH_COMPLEXITY_THRESHOLD)

C2_LevelBands ==
    (op = "get_complexity_level" /\ Ascending(config)) =>
        LET low == config.LOW_COMPLEXITY_THRESHOLD
            medium == config.MEDIUM_COMPLEXITY_THRESHOLD
            high == config.HIGH_COMPLEXITY_THRESHOLD
        IN  /\ Returned(ret)
            /\ ret.val \in {"low", "medium", "high", "very_high"}
            /\ ret.val = "low" <=> Lt(arg, low)
            /\ ret.val = "medium" <=> (Le(low, arg) /\ Lt(arg, medium))
            /\ ret.val = "high" <=> (Le(medium, arg) /\ Lt(arg, high))
            /\ ret.val = "very_high" <=> Le(high, arg)
            /\ config = DefaultConfig =>
                /\ arg = Zero => ret.val = "low"
                /\ arg = Q(25, 100) => ret.val = "medium"
                /\ arg = Q(449, 1000) => ret.val = "medium"
                /\ arg = Q(45, 100) => ret.val = "high"
                /\ arg = One => ret.val = "very_high"

\* C2 witness: the default thresholds, and the score 0.25 classified "medium"
C2_Witness ==
    /\ op = "get_complexity_level"
    /\ config = DefaultConfig
    /\ arg = Q(25, 100)
    /\ ret = Ret("medium")

\* C4: for non-empty maps and weights with a non-zero sum, the value returned
\* is (w_r*mean(R) + w_l*mean(L) + w_t*mean(T)) / (w_r + w_l + w_t) clamped to
\* [0,1], mean being the plain arithmetic mean of the map's values; the weights
\* need not sum to 1, and {0.2, 0.4, 0.6} has mean 0.4.
C4_WeightedMeanOfMeans ==
    (op = "_calculate_overall_score" /\ WeightedDen(config, arg) # 0) =>
        LET num == WeightedNum(config, arg)
            den == WeightedDen(config, arg)
        IN  /\ Returned(ret)
            /\ num < 0 => ret.val = Zero
            /\ num > den => ret.val = One
            /\ (0 <= num /\ num <= den) => ret.val.n * den = num * ret.val.d
            /\ ( /\ Values(arg.readability) \in
                      {<<Q(2, 10), Q(4, 10), Q(6, 10)>>, <<Q(2, 10), Q(6, 10), Q(4, 10)>>,
                       <<Q(4, 10), Q(2, 10), Q(6, 10)>>, <<Q(4, 10), Q(6, 10), Q(2, 10)>>,
                       <<Q(6, 10), Q(2, 10), Q(4, 10)>>, <<Q(6, 10), Q(4, 10), Q(2, 10)>>}
                 /\ config.LINGUISTIC_WEIGHT = Zero
                 /\ config.TRANSLATION_WEIGHT = Zero )
               => ret.val = Q(4, 10)

\* C4 witness: weights (2, 0.3, 0.3), which do not sum to 1, the readability
\* map {0.2, 0.4, 0.6}, and a result that is neither 0 nor 1
C4_Witness ==
    /\ op = "_calculate_overall_score"
    /\ config.READABILITY_WEIGHT = Q(2, 1)
    /\ config.LINGUISTIC_WEIGHT = Q(3, 10)
    /\ config.TRANSLATION_WEIGHT = Q(3, 10)
    /\ Count(arg.readability) = 3
    /\ {arg.readability[k] : k \in DOMAIN arg.readability} = {Q(2, 10), Q(4, 10), Q(6, 10)}
    /\ Returned(ret)
    /\ Lt(Zero, ret.val) /\ Lt(ret.val, One)

MetricNames ==
    {ReadabilityNames[i] : i \in 1..5} \cup {LinguisticNames[i] : i \in 1..4}
    \cup {TranslationNames[i] : i \in 1..3}

\* the calls of a batch that raise when made on their own
Failing(texts) == {i \in 1..Len(texts) : ~Returned(score_text(texts[i]))}

\* C3: batch_score(texts) is what collecting score_text(texts[i]) in order
\* gives: when every text scores, a list as long as texts whose i-th element
\* is score_text(texts[i]), repeated texts included; when a text does not, the
\* exception of the first such text.
C3_BatchEqualsSingle ==
    op = "batch_score" =>
        /\ Failing(arg) = {} =>
            /\ Returned(ret)
            /\ Len(ret.val) = Len(arg)
            /\ \A i \in 1..Len(arg) : ret.val[i] = score_text(arg[i]).val
        /\ Failing(arg) # {} => ret = score_text(arg[SetMin(Failing(arg))])

\* C3 witness: a returned batch of three texts, the first given again as third
C3_Witness ==
    /\ op = "batch_score"
    /\ Returned(ret)
    /\ Len(arg) = 3
    /\ arg[1] = arg[3]
    /\ arg[1] # arg[2]
    /\ ret.val[1] = ret.val[3]
    /\ ret.val[1] # ret.val[2]

\* C5: a Config whose three weights are 0 is refused when it is constructed, so
\* no call of a constructed scorer ends in the ZeroDivisionError of the
\* weighted average.
C5_NoZeroWeightDivision ==
    ~(ret.exc = "ZeroDivisionError" /\ ret.at = "np.average")

\* C6: score_text("") returns a bundle holding every one of the twelve metrics
\* and an overall_complexity in [0,1].
C6_EmptyTextScores ==
    (op = "score_text" /\ arg.doc = <<>>) =>
        /\ Returned(ret)
        /\ MetricNames \subseteq DOMAIN ret.val
        /\ InUnitInterval(ret.val["overall_complexity"])

\* C7: a score_text call on a text has the outcome an earlier score_text call
\* on the same text had, whatever was called in between.
C7_SameTextSameOutcome ==
    (op = "score_text" /\ memo.set /\ arg = memo.text) => ret = memo.out

\* C7 witness: a second call on a remembered text, after other calls, returning
C7_Witness ==
    /\ op = "score_text"
    /\ memo.set
    /\ memo.between
    /\ arg = memo.text
    /\ Returned(ret)

\* C8: a returned bundle has exactly the twelve metric names and
\* overall_complexity as keys, each metric with the value its own provider
\* returned and overall_complexity with the aggregator's.
C8_BundleKeysAndValues ==
    (op = "score_text" /\ Returned(ret)) =>
        /\ DOMAIN ret.val = MetricNames \cup {"overall_complexity"}
        /\ Cardinality(DOMAIN ret.val) = 13
        /\ \A i \in 1..5 :
            ret.val[ReadabilityNames[i]] = ReadabilityScore(arg)[ReadabilityNames[i]]
        /\ \A i \in 1..4 :
            ret.val[LinguisticNames[i]] = LinguisticScore(arg).val[LinguisticNames[i]]
        /\ \A i \in 1..3 :
            ret.val[TranslationNames[i]] = TranslationScore(arg)[TranslationNames[i]]
        /\ Ret(ret.val["overall_complexity"]) =
            _calculate_overall_score(ReadabilityScore(arg), LinguisticScore(arg).val,
                                     TranslationScore(arg))

\* C8 witness: a returned bundle in which two metrics of different categories
\* differ
C8_Witness ==
    /\ op = "score_text"
    /\ Returned(ret)
    /\ ret.val["semantic_complexity"] # ret.val["syntactic_complexity"]
    /\ ret.val["flesch_kincaid"] # ret.val["avg_sentence_length"]

\* C9: when a readability formula fails on a text, ReadabilityMetrics.score
\* returns its five keys all 0.0, and score_text returns a bundle for the text.
C9_ReadabilityFailureAbsorbed ==
    (op = "score_text" /\ FirstFailure(arg) <= 5) =>
        /\ ReadabilityScore(arg) = ReadabilityDefault
        /\ Returned(ret)

\* The part of C9 that is about the readability provider alone: on a text with
\* a failing formula its result is the all-zero default, and an exception
\* leaving score_text comes from elsewhere.
ReadabilityFailureGivesDefault ==
    (op = "score_text" /\ FirstFailure(arg) <= 5) =>
        /\ ReadabilityScore(arg) = ReadabilityDefault
        /\ ret.at # "textstat"
        /\ Returned(ret) => \A i \in 1..5 : ret.val[ReadabilityNames[i]] = Zero

\* C10: when a text of a batch makes a provider fail and another does not, the
\* batch still returns, with the results of the texts that score.
C10_BatchIsolation ==
    (op = "batch_score" /\ Failing(arg) # {} /\ Failing(arg) # 1..Len(arg)) =>
        /\ Returned(ret)
        /\ \A i \in (1..Len(arg)) \ Failing(arg) : ret.val[i] = score_text(arg[i]).val

\* C11: for a text whose parse has no sentences and no tokens,
\* LinguisticMetrics.score returns 0.0 for avg_sentence_length,
\* lexical_diversity, syntactic_complexity and vocabulary_rarity, and no helper
\* divides by a zero count.
C11_EmptyDocLinguisticZeros ==
    (op = "LinguisticMetrics.score" /\ arg.doc = <<>>) =>
        /\ ret.exc # "ZeroDivisionError"
        /\ ret = Ret([k \in {LinguisticNames[i] : i \in 1..4} |-> Zero])

\* The part of C11 that holds: the two helpers that count words return 0.0 on
\* the empty parse, and the division by zero is in a helper that counts
\* sentences.
EmptyDocWordHelpersZero ==
    (op = "LinguisticMetrics.score" /\ arg.doc = <<>>) =>
        /\ _calculate_lexical_diversity(arg.doc) = Zero
        /\ _calculate_vocabulary_rarity(arg.doc) = Zero
        /\ ret = Raise("ZeroDivisionError", "_calculate_avg_sentence_length")

\* C12: in every bundle score_text returns, each of the twelve metric values
\* lies in [0,1]: the grade-level metrics at most 20/25, flesch_reading_ease at
\* least 1 - 100/120, lexical_diversity at most 0.6 and vocabulary_rarity at
\* most 0.5, the others capped at 1.0 or ratios of counts.
C12_MetricsInUnitInterval ==
    (op = "score_text" /\ Returned(ret)) =>
        /\ \A k \in MetricNames : InUnitInterval(ret.val[k])
        /\ \A i \in 1..4 : Le(ret.val[ReadabilityNames[i]], Q(20, 25))
        /\ \/ Le(Q(20, 120), ret.val["flesch_reading_ease"])
           \/ FirstFailure(arg) <= 5
        /\ Le(ret.val["lexical_diversity"], Q(6, 10))
        /\ Le(ret.val["vocabulary_rarity"], Q(5, 10))

\* C12 witness: a returned bundle for a text whose raw values are outside the
\* ranges on both sides: grade levels -3 and 30, reading ease 130, embedding
\* norm 12, a sentence longer than 30 tokens and deeper than 10 links
C12_Witness ==
    /\ op = "score_text"
    /\ Returned(ret)
    /\ arg.textstat = TextstatExtreme
    /\ arg.norm = Q(12, 1)
    /\ arg.doc = <<SentLong>>
    /\ ret.val["flesch_kincaid"] = Zero
    /\ ret.val["smog"] = Q(20, 25)
    /\ ret.val["flesch_reading_ease"] = Q(20, 120)
    /\ ret.val["avg_sentence_length"] = One
    /\ ret.val["syntactic_complexity"] = One
    /\ ret.val["semantic_complexity"] = One

====
